---- MODULE Spec2Model ----
(***************************************************************************)
(* The incremental blob synchronisation engine of the backup service:     *)
(* AzureService.DownloadBlobs / processContainer / downloadBlob and the    *)
(* sync-metadata file.  The repository holds two implementations of the    *)
(* same AzureService: the one that builds newMetadata from the containers  *)
(* it processed (src/unnamed/part_008) and the one in                      *)
(* src/backup-service/internal/backup/azure.go, which saves a freshly made *)
(* empty SyncMetadata.  The variable impl says which one is built.         *)
(***************************************************************************)
EXTENDS Integers, Sequences, FiniteSets, TLC

\* ------------------------------------------------------------------ bounds
MaxN == 2                 \* MaxConcurrent ranges over 1..MaxN
MaxVer == 2               \* lastModified timestamps are 1..MaxVer
MaxContent == 2           \* object contents (and their MD5) are 1..MaxContent
MaxPasses == 3            \* passes (DownloadBlobs calls) of one container
MaxPassesAll == 2         \* passes over all containers
MaxEnvOps == 1            \* remote / out-of-band local changes per behaviour
MaxCrashes == 1           \* process kills per behaviour
MaxFaults == 2            \* failing network / file operations per behaviour
BlobPageSize == 1         \* blobs per ListBlobsFlatSegment page (scaled MaxResults)
ContainerPageSize == 2    \* containers per ListContainersSegment page

\* ------------------------------------------------------- program constants
ContainerSemaphoreCap == 5

Impls == {"part_008", "azure_go"}
Containers == {"A", "B", "C", "D", "E", "F"}
\* the containers of the account, in the order ListContainersSegment returns
\* them; LargeAccount has more containers than containerSemaphore has slots
ContainerOrder == <<"A", "B", "C">>
LargeAccount == <<"A", "B", "C", "D", "E", "F">>
\* blob names, in the order ListBlobsFlatSegment returns them
Keys == {"a", "a.tmp", "b", "c/../../B/a"}
KeyOrder == <<"a", "a.tmp", "b", "c/../../B/a">>
\* downloadBlob: tempPath := targetPath + ".tmp"
TempPath(k) == k \o ".tmp"
\* the paths under a container directory: targets and temp files
Paths == Keys \cup {TempPath(k) : k \in Keys}

\* the elements of a slash-separated path
Segments(p) ==
  IF p = "c/../../B/a" THEN <<"c", "..", "..", "B", "a">>
  ELSE IF p = "c/../../B/a.tmp" THEN <<"c", "..", "..", "B", "a.tmp">>
  ELSE <<p>>
\* filepath.Clean, element by element: ".." removes the element before it
RECURSIVE Clean(_, _)
Clean(done, rest) ==
  IF rest = <<>> THEN done
  ELSE IF Head(rest) = ".." /\ done # <<>>
    THEN Clean(SubSeq(done, 1, Len(done) - 1), Tail(rest))
    ELSE Clean(Append(done, Head(rest)), Tail(rest))
\* filepath.Join(containerDir, name), relative to backupRootDir: the
\* directory under backupRootDir and the path under that directory
Join(c, p) == Clean(<<>>, <<c>> \o Segments(p))
Dir(c, p) == Join(c, p)[1]
Rel(c, p) == Join(c, p)[2]
\* the objects each container of the storage account holds at the start
Account == [A |-> {"a", "b"}, B |-> {"a"}, C |-> {"a"},
            D |-> {}, E |-> {}, F |-> {}]
\* the containers whose blobs and local files change between passes
Changing == {"A"}
\* an account in which one blob is named like the temp file of another
TmpNamedAccount == [A |-> {"a", "a.tmp"}, B |-> {}, C |-> {},
                    D |-> {}, E |-> {}, F |-> {}]
\* an account in which one blob name of A leads out of A's directory
TraversalAccount == [A |-> {"a", "c/../../B/a"}, B |-> {}, C |-> {},
                     D |-> {}, E |-> {}, F |-> {}]
\* a file that was created or truncated and is not completely written
Partial == MaxContent + 1
\* Azure.ContainerName: the "ALL" sentinel or one container
ContainerNames == {"ALL", "A"}

\* BlobMetadata; NoRecord stands for "no entry under this key"
NoRecord == [LastModified |-> 0, MD5Hash |-> 0]
BlobMetadata(lm, h) == [LastModified |-> lm, MD5Hash |-> h]
NoFiles == [k \in Keys |-> NoRecord]
EmptyContainers == [c \in Containers |-> NoFiles]
\* sync_metadata.json before the first save
NoMetadataFile == [exists |-> FALSE, Containers |-> EmptyContainers]
NoMetadataTmp == [exists |-> FALSE, Containers |-> EmptyContainers,
                  bytes |-> "synced"]
ZeroStats == [FilesCount |-> 0, DownloadedFiles |-> 0, SkippedFiles |-> 0]

VARIABLES
  impl,            \* which AzureService implementation is built
  ContainerName,   \* config.Azure.ContainerName
  MaxConcurrent,   \* config.Backup.MaxConcurrent
  containerItems,  \* the containers ListContainersSegment returns, in order
  containerPage,   \* how many of them one ListContainersSegment page holds
  remote,          \* the storage account: container -> key -> BlobMetadata
  disk,            \* backupRootDir: container -> path -> content (0: no file)
  own,             \* per container, key: tempPath still names the file that
                   \* this downloadBlob created (outFile)
  metadataFile,    \* sync_metadata.json: whether it exists, its Containers
  metadataBytes,   \* how the bytes of sync_metadata.json stand: "synced" (on
                   \* storage), "cached" (complete, not flushed), "partial"
  metadataTmp,     \* sync_metadata.json.tmp: exists, Containers, bytes
  saves,           \* calls of saveSyncMetadata in this DownloadBlobs
  saveErr,         \* "Failed to save sync metadata" was logged in this pass
  ctxDone,         \* the ctx given to DownloadBlobs is cancelled
  reg,             \* per container, key: the counter value a blob goroutine
                   \* has read and not yet written back
  handoff,         \* per container: where performBackup is with its archive
  second,          \* where a performBackup that cron started on a later
                   \* tick of the schedule is
  pc,              \* where DownloadBlobs is
  result,          \* what the last DownloadBlobs returned: "none","ok","error"
  loadErr,         \* loadSyncMetadata returned an error in this pass
  metadata,        \* the SyncMetadata.Containers loaded at pass start
  newMetadata,     \* the SyncMetadata.Containers to be saved
  stats,           \* keys of the stats map of DownloadBlobs
  cmarker,         \* ListContainersSegment marker: containers listed so far
  cpc,             \* per container: where its goroutine / processContainer is
  marker,          \* per container: ListBlobsFlatSegment marker
  blobInfo,        \* per container, key: the listed BlobItem
  task,            \* per container, key: where the blob goroutine is
  currentFiles,    \* per container: processContainer's currentFiles
  cstats,          \* per container: processContainer's stats
  errChan,         \* per container: keys whose error sits in errChan
  removed,         \* per container: files the cleanup walk removed
  passes, envOps, crashes, faults,   \* counters that bound the behaviours
  okPrev,          \* containers whose last sub-pass succeeded and was saved,
                   \* with remote and local files untouched since
  everFetched,     \* per container: keys downloadBlob ever renamed into place
  crashFetched,    \* per container: keys fetched in the pass that was killed
  crashPhase       \* 0: no kill yet, 1: next pass, 2: the pass after, 3: later

vars == <<impl, ContainerName, MaxConcurrent, containerItems, containerPage, remote, disk, own, metadataFile, metadataBytes,
          metadataTmp, saves, saveErr, ctxDone, reg, handoff, second, pc,
          result, loadErr, metadata, newMetadata, stats, cmarker, cpc, marker,
          blobInfo, task, currentFiles, cstats, errChan, removed, passes,
          envOps, crashes, faults, okPrev, everFetched, crashFetched,
          crashPhase>>

config == <<impl, ContainerName, MaxConcurrent, containerItems, containerPage>>
counters == <<passes, envOps, crashes, faults>>
tmpState == <<metadataTmp, metadataBytes>>
saveLog == <<saves, saveErr>>
later == <<reg, handoff, second>>
\* the state of the goroutines of one pass
transient == <<cmarker, cpc, marker, blobInfo, task, currentFiles, cstats,
               errChan, removed>>

\* the storage account, the backup directory and the state file at the start
InitFilesOf(account) ==
  /\ remote = [c \in Containers |-> [k \in Keys |->
                 IF k \in account[c] THEN BlobMetadata(1, 1) ELSE NoRecord]]
  /\ disk = [c \in Containers |-> [p \in Paths |-> 0]]
  /\ metadataFile = NoMetadataFile
  /\ metadataBytes = "synced"
  /\ metadataTmp = NoMetadataTmp

InitFiles == InitFilesOf(Account)

\* no DownloadBlobs has run yet
InitPass ==
  /\ pc = "idle"
  /\ saves = 0
  /\ saveErr = FALSE
  /\ ctxDone = FALSE
  /\ reg = [c \in Containers |-> [k \in Keys |-> 0]]
  /\ handoff = [c \in Containers |-> "none"]
  /\ second = "none"
  /\ result = "none"
  /\ loadErr = FALSE
  /\ metadata = EmptyContainers
  /\ newMetadata = EmptyContainers
  /\ stats = {}
  /\ cmarker = 0
  /\ cpc = [c \in Containers |-> "none"]
  /\ marker = [c \in Containers |-> 0]
  /\ blobInfo = EmptyContainers
  /\ task = [c \in Containers |-> [k \in Keys |-> "none"]]
  /\ own = [c \in Containers |-> [k \in Keys |-> FALSE]]
  /\ currentFiles = EmptyContainers
  /\ cstats = [c \in Containers |-> ZeroStats]
  /\ errChan = [c \in Containers |-> {}]
  /\ removed = [c \in Containers |-> {}]
  /\ passes = 0 /\ envOps = 0 /\ crashes = 0 /\ faults = 0
  /\ okPrev = {}
  /\ everFetched = [c \in Containers |-> {}]
  /\ crashFetched = [c \in Containers |-> {}]
  /\ crashPhase = 0

Init ==
  /\ impl \in Impls
  /\ ContainerName \in ContainerNames
  /\ MaxConcurrent \in 1..MaxN
  /\ containerItems = ContainerOrder
  /\ containerPage = ContainerPageSize
  /\ InitFiles
  /\ InitPass


\* ------------------------------------------------------------- helpers
AllContainers == ContainerName = "ALL"

PassBound == IF AllContainers THEN MaxPassesAll ELSE MaxPasses

Min(a, b) == IF a < b THEN a ELSE b

\* indices (in KeyOrder) of the blobs of c that the listing has not returned yet
Remaining(c, m) ==
  {i \in (m + 1)..Len(KeyOrder) : remote[c][KeyOrder[i]] # NoRecord}

\* the next page: the first BlobPageSize (MaxResults) of the remaining blobs
Page(c, m) ==
  {i \in Remaining(c, m) :
     Cardinality({j \in Remaining(c, m) : j < i}) < BlobPageSize}

\* number of blob goroutines of c between acquire and release of semaphore
InDownload == {"created", "copied", "synced"}
\* ... and where it is when its updates of stats are taken step by step:
\* before mu.Lock(), inside one of the three sections under mu, or back
\* from downloadBlob
InMu == {"inFiles", "inSkipped", "inDownloaded"}
InCount == {"sem", "fetched"} \cup InMu
Held(c) ==
  Cardinality({k \in Keys :
                 task[c][k] \in {"held", "errsend"} \cup InDownload \cup InCount})

\* semaphore <- struct{}{} can proceed: the channel buffer is not full
SemaphoreFree_Unbounded(c) == TRUE
SemaphoreFree(c) == Held(c) < MaxConcurrent

\* errChan <- err can proceed: the channel buffer is not full
ErrChanFree(c) == Cardinality(errChan[c]) < MaxConcurrent

\* containerSemaphore <- struct{}{} can proceed
ContainerSemaphoreFree ==
  Cardinality({c \in Containers : cpc[c] \in {"setup", "list", "wait"}})
    < ContainerSemaphoreCap

\* the skip test of processContainer: a previous entry exists, the target
\* file exists locally, and LastModified equals the recorded one
NeedsDownload_ComparesHash(c, k) ==
  ~ (/\ metadata[c][k] # NoRecord
     /\ disk[Dir(c, k)][Rel(c, k)] # 0
     /\ blobInfo[c][k].LastModified = metadata[c][k].LastModified
     /\ blobInfo[c][k].MD5Hash = metadata[c][k].MD5Hash)
NeedsDownload(c, k) ==
  ~ (/\ metadata[c][k] # NoRecord
     /\ disk[Dir(c, k)][Rel(c, k)] # 0
     /\ blobInfo[c][k].LastModified = metadata[c][k].LastModified)

\* the files the cleanup walk removes: local files with no currentFiles entry
StaleFiles_AllNotFetched(c) ==
  {k \in Keys : disk[c][k] # 0 /\ task[c][k] # "downloaded"}
StaleFiles(c) ==
  {p \in Paths : /\ disk[c][p] # 0
                 /\ IF p \in Keys THEN currentFiles[c][p] = NoRecord ELSE TRUE}

\* what a successfully processed container leaves in newMetadata.Containers
Recorded(c) ==
  IF impl = "part_008"
    THEN [newMetadata EXCEPT ![c] = currentFiles[c]]
    ELSE newMetadata

\* processContainer returned an error to the code that called it
ReturnsError_Never(c) == FALSE
ReturnsError(c) == errChan[c] # {}

\* a blob goroutine can still take a step.  A pass starts only when none
\* of the goroutines that outlived the processContainer of the pass before
\* it (ListBlobsFails) can.
Running(c, k) ==
  \/ task[c][k] \in {"queued", "held"} \cup InDownload \cup InCount
  \/ task[c][k] = "errsend" /\ ErrChanFree(c)

\* an operation of the environment (network, file system) fails
Fault == faults < MaxFaults /\ faults' = faults + 1
NoFault == faults' = faults

\* a call that takes ctx fails: at once when ctx is done, and otherwise by a
\* failure of the environment
CtxFault == IF ctxDone THEN NoFault ELSE Fault

PassEnds == crashPhase' = IF crashPhase \in {1, 2} THEN crashPhase + 1 ELSE crashPhase

\* processContainer returns to DownloadBlobs, which records the outcome.
\* "ALL": the container goroutine logs an error and returns, or stores the
\* stats (and metadata) under mu.  Single container: an error is returned
\* to the caller of DownloadBlobs at once, without saving.
Return_IgnoresError(c, to, ok) ==
  /\ cpc' = [cpc EXCEPT ![c] = to]
  /\ stats' = stats \cup {c}
  /\ newMetadata' = Recorded(c)
  /\ pc' = IF AllContainers THEN pc ELSE "save"
  /\ UNCHANGED <<result, okPrev, crashPhase>>
Return(c, to, ok) ==
  /\ cpc' = [cpc EXCEPT ![c] = to]
  /\ IF ok
       THEN /\ stats' = stats \cup {c}
            /\ newMetadata' = Recorded(c)
            /\ pc' = IF AllContainers THEN pc ELSE "save"
            /\ UNCHANGED <<result, okPrev, crashPhase>>
       ELSE IF AllContainers
         THEN UNCHANGED <<stats, newMetadata, pc, result, okPrev, crashPhase>>
         ELSE /\ stats' = {}
              /\ pc' = "done"
              /\ result' = "error"
              /\ okPrev' = {}
              /\ PassEnds
              /\ UNCHANGED newMetadata

\* what DownloadBlobs goes on with when loadSyncMetadata returned an error:
\* a fresh SyncMetadata, not the one loadSyncMetadata was decoding into
LoadFailed_KeepsDecoded == metadataFile.Containers
LoadFailed == EmptyContainers

\* ------------------------------------------------------------- the pass
\* DownloadBlobs starts: loadSyncMetadata, fresh stats and newMetadata
StartPass ==
  /\ pc \in {"idle", "done"}
  /\ passes < PassBound
  /\ \A c \in Containers, k \in Keys : ~Running(c, k)
  /\ passes' = passes + 1
  /\ \/ /\ ~metadataFile.exists
        /\ metadata' = EmptyContainers /\ loadErr' = FALSE /\ NoFault
     \/ /\ metadataFile.exists /\ metadataBytes # "partial"
        /\ \/ metadata' = metadataFile.Containers /\ loadErr' = FALSE /\ NoFault
           \/ metadata' = LoadFailed /\ loadErr' = TRUE /\ Fault
     \/ /\ metadataFile.exists /\ metadataBytes = "partial"
        /\ metadata' = LoadFailed /\ loadErr' = TRUE /\ NoFault
  /\ newMetadata' = EmptyContainers
  /\ stats' = {}
  /\ result' = "none"
  /\ saves' = 0
  /\ saveErr' = FALSE
  /\ ctxDone' = FALSE
  /\ reg' = [c \in Containers |-> [k \in Keys |-> 0]]
  /\ handoff' = [c \in Containers |-> "none"]
  /\ cmarker' = 0
  /\ cpc' = [c \in Containers |->
               IF ~AllContainers /\ c = ContainerName THEN "setup" ELSE "none"]
  /\ pc' = IF AllContainers THEN "listContainers" ELSE "single"
  /\ marker' = [c \in Containers |-> 0]
  /\ blobInfo' = EmptyContainers
  /\ task' = [c \in Containers |-> [k \in Keys |-> "none"]]
  /\ own' = [c \in Containers |-> [k \in Keys |-> FALSE]]
  /\ currentFiles' = EmptyContainers
  /\ cstats' = [c \in Containers |-> ZeroStats]
  /\ errChan' = [c \in Containers |-> {}]
  /\ removed' = [c \in Containers |-> {}]
  /\ UNCHANGED <<config, second, tmpState, remote, disk, metadataFile, envOps,
                 crashes, okPrev, everFetched, crashFetched, crashPhase>>

\* ListContainersSegment fails: DownloadBlobs returns nil and the error
ListContainersFails ==
  /\ pc = "listContainers"
  /\ CtxFault
  /\ pc' = "done" /\ result' = "error" /\ stats' = {} /\ okPrev' = {}
  /\ PassEnds
  /\ UNCHANGED <<config, later, tmpState, saveLog, ctxDone, own, remote, disk, metadataFile, loadErr, metadata,
                 newMetadata, transient, passes, envOps, crashes, everFetched, crashFetched>>

\* ListContainersSegment returns a page: one goroutine per container of it
ListContainersSegment ==
  /\ pc = "listContainers"
  /\ ~ctxDone
  /\ LET last == Min(cmarker + containerPage, Len(containerItems)) IN
       /\ cmarker' = last
       /\ cpc' = [c \in Containers |->
                    IF \E i \in (cmarker + 1)..last : containerItems[i] = c
                      THEN "acquire" ELSE cpc[c]]
  /\ pc' = "waitContainers"
  /\ UNCHANGED <<config, later, tmpState, saveLog, ctxDone, own, remote, disk, metadataFile, result, loadErr, metadata,
                 newMetadata, stats, marker, blobInfo, task, currentFiles,
                 cstats, errChan, removed, counters, okPrev, everFetched,
                 crashFetched, crashPhase>>

\* the container goroutine acquires containerSemaphore
ContainerGo(c) ==
  /\ cpc[c] = "acquire"
  /\ ContainerSemaphoreFree
  /\ cpc' = [cpc EXCEPT ![c] = "setup"]
  /\ UNCHANGED <<config, later, tmpState, saveLog, ctxDone, own, remote, disk, metadataFile, pc, result, loadErr,
                 metadata, newMetadata, stats, cmarker, marker, blobInfo, task,
                 currentFiles, cstats, errChan, removed, counters, okPrev,
                 everFetched, crashFetched, crashPhase>>

\* processContainer: GetProperties, the two make(chan ..., MaxConcurrent)
\* and MkdirAll succeed
Setup(c) ==
  /\ cpc[c] = "setup"
  /\ ~ctxDone
  /\ MaxConcurrent >= 0
  /\ cpc' = [cpc EXCEPT ![c] = "list"]
  /\ UNCHANGED <<config, later, tmpState, saveLog, ctxDone, own, remote, disk, metadataFile, pc, result, loadErr,
                 metadata, newMetadata, stats, cmarker, marker, blobInfo, task,
                 currentFiles, cstats, errChan, removed, counters, okPrev,
                 everFetched, crashFetched, crashPhase>>

\* processContainer: GetProperties or MkdirAll fails
SetupFails(c) ==
  /\ cpc[c] = "setup"
  /\ CtxFault
  /\ Return(c, "accessErr", FALSE)
  /\ UNCHANGED <<config, later, tmpState, saveLog, ctxDone, own, remote, disk, metadataFile, loadErr, metadata,
                 cmarker, marker, blobInfo, task, currentFiles, cstats,
                 errChan, removed, passes, envOps, crashes, everFetched, crashFetched>>

\* ListBlobsFlatSegment returns a page: one goroutine per blob of it
ListBlobsFlatSegment(c) ==
  /\ cpc[c] = "list"
  /\ ~ctxDone
  /\ LET page == Page(c, marker[c])
         rest == Remaining(c, marker[c]) \ page IN
       /\ blobInfo' = [blobInfo EXCEPT ![c] = [k \in Keys |->
            IF \E i \in page : KeyOrder[i] = k THEN remote[c][k] ELSE @[k]]]
       /\ task' = [task EXCEPT ![c] = [k \in Keys |->
            IF \E i \in page : KeyOrder[i] = k THEN "queued" ELSE @[k]]]
       /\ marker' = [marker EXCEPT ![c] =
            IF rest = {} THEN Len(KeyOrder)
            ELSE CHOOSE i \in page : \A j \in page : j <= i]
       /\ cpc' = [cpc EXCEPT ![c] = IF rest = {} THEN "wait" ELSE "list"]
  /\ UNCHANGED <<config, later, tmpState, saveLog, ctxDone, own, remote, disk, metadataFile, pc, result, loadErr,
                 metadata, newMetadata, stats, cmarker, currentFiles, cstats,
                 errChan, removed, counters, okPrev, everFetched, crashFetched,
                 crashPhase>>

\* ListBlobsFlatSegment fails: processContainer returns at once, without
\* waiting for the blob goroutines of earlier pages
ListBlobsFails(c) ==
  /\ cpc[c] = "list"
  /\ CtxFault
  /\ Return(c, "listErr", FALSE)
  /\ UNCHANGED <<config, later, tmpState, saveLog, ctxDone, own, remote, disk, metadataFile, loadErr, metadata,
                 cmarker, marker, blobInfo, task, currentFiles, cstats,
                 errChan, removed, passes, envOps, crashes, everFetched, crashFetched>>

\* ------------------------------------------------------ a blob goroutine
\* the currentFiles entry of a blob: the properties of the BlobItem that
\* the listing returned, not those the blob has by now
ListedProperties_AsOfNow(c, k) == remote[c][k]
ListedProperties(c, k) == blobInfo[c][k]

\* semaphore acquired; under mu: FilesCount++ and the currentFiles entry
TaskAcquire(c, k) ==
  /\ task[c][k] = "queued"
  /\ SemaphoreFree(c)
  /\ task' = [task EXCEPT ![c][k] = "held"]
  /\ cstats' = [cstats EXCEPT ![c].FilesCount = @ + 1]
  /\ currentFiles' = [currentFiles EXCEPT ![c][k] = ListedProperties(c, k)]
  /\ UNCHANGED <<config, later, tmpState, saveLog, ctxDone, own, remote, disk, metadataFile, pc, result, loadErr,
                 metadata, newMetadata, stats, cmarker, cpc, marker, blobInfo,
                 errChan, removed, counters, okPrev, everFetched, crashFetched,
                 crashPhase>>

\* the blob is unchanged: SkippedFiles++, release
TaskSkip(c, k) ==
  /\ task[c][k] = "held"
  /\ ~NeedsDownload(c, k)
  /\ task' = [task EXCEPT ![c][k] = "skipped"]
  /\ cstats' = [cstats EXCEPT ![c].SkippedFiles = @ + 1]
  /\ UNCHANGED <<config, later, tmpState, saveLog, ctxDone, own, remote, disk, metadataFile, pc, result, loadErr,
                 metadata, newMetadata, stats, cmarker, cpc, marker, blobInfo,
                 currentFiles, errChan, removed, counters, okPrev, everFetched,
                 crashFetched, crashPhase>>

\* downloadBlob succeeds: the blob's content as it is now in the account is
\* written to the temp file, which is renamed onto the target (no file is
\* left at tempPath); DownloadedFiles++
TaskDownload(c, k) ==
  /\ task[c][k] = "held"
  /\ NeedsDownload(c, k)
  /\ ~ctxDone
  /\ remote[c][k] # NoRecord
  /\ disk' = [disk EXCEPT ![Dir(c, k)][Rel(c, k)] = remote[c][k].MD5Hash,
                          ![Dir(c, k)][Rel(c, TempPath(k))] = 0]
  /\ task' = [task EXCEPT ![c][k] = "downloaded"]
  /\ cstats' = [cstats EXCEPT ![c].DownloadedFiles = @ + 1]
  /\ everFetched' = [everFetched EXCEPT ![c] = @ \cup {k}]
  /\ UNCHANGED <<config, later, tmpState, saveLog, ctxDone, own, remote, metadataFile, pc, result, loadErr, metadata,
                 newMetadata, stats, cmarker, cpc, marker, blobInfo,
                 currentFiles, errChan, removed, counters, okPrev,
                 crashFetched, crashPhase>>

\* downloadBlob fails (the temp file is removed, the target is untouched):
\* the goroutine goes on to send the error, still holding the semaphore
TaskDownloadFails(c, k) ==
  /\ task[c][k] = "held"
  /\ NeedsDownload(c, k)
  /\ CtxFault
  /\ task' = [task EXCEPT ![c][k] = "errsend"]
  /\ UNCHANGED <<config, later, tmpState, saveLog, ctxDone, own, remote, disk, metadataFile, pc, result, loadErr,
                 metadata, newMetadata, stats, cmarker, cpc, marker, blobInfo,
                 currentFiles, cstats, errChan, removed, passes, envOps, crashes, okPrev,
                 everFetched, crashFetched, crashPhase>>

\* errChan <- err goes through; return, release
TaskSendErr(c, k) ==
  /\ task[c][k] = "errsend"
  /\ ErrChanFree(c)
  /\ errChan' = [errChan EXCEPT ![c] = @ \cup {k}]
  /\ task' = [task EXCEPT ![c][k] = "failed"]
  /\ UNCHANGED <<config, later, tmpState, saveLog, ctxDone, own, remote, disk, metadataFile, pc, result, loadErr,
                 metadata, newMetadata, stats, cmarker, cpc, marker, blobInfo,
                 currentFiles, cstats, removed, counters, okPrev, everFetched,
                 crashFetched, crashPhase>>

\* ------------------------------------------- the end of processContainer
\* wg.Wait() returns, close(errChan), the cleanup walk over containerDir,
\* the errors are drained from errChan, and processContainer returns
FinishContainer(c) ==
  /\ cpc[c] = "wait"
  /\ \A k \in Keys : task[c][k] \in {"none", "skipped", "downloaded", "failed"}
  /\ disk' = [disk EXCEPT ![c] = [p \in Paths |->
                IF p \in StaleFiles(c) THEN 0 ELSE @[p]]]
  /\ removed' = [removed EXCEPT ![c] = StaleFiles(c)]
  /\ IF ReturnsError(c) THEN Return(c, "fetchErr", FALSE)
                        ELSE Return(c, "ok", TRUE)
  /\ UNCHANGED <<config, later, tmpState, saveLog, ctxDone, own, remote, metadataFile, loadErr, metadata, cmarker,
                 marker, blobInfo, task, currentFiles, cstats, errChan,
                 counters, everFetched, crashFetched>>

\* containerWg.Wait() returns: next page of containers, or on to the save
WaitContainers ==
  /\ pc = "waitContainers"
  /\ \A c \in Containers : cpc[c] \notin {"acquire", "setup", "list", "wait"}
  /\ pc' = IF cmarker < Len(containerItems) THEN "listContainers" ELSE "save"
  /\ UNCHANGED <<config, later, tmpState, saveLog, ctxDone, own, remote, disk, metadataFile, result, loadErr, metadata,
                 newMetadata, stats, transient, counters, okPrev, everFetched,
                 crashFetched, crashPhase>>

\* what is at s.metadataPath after a saveSyncMetadata that failed: only
\* tempPath was created, written and removed
FileAfterFailedSave_Removed == NoMetadataFile
FileAfterFailedSave == metadataFile

\* saveSyncMetadata(newMetadata) succeeds: the file is replaced by rename
SaveSyncMetadata ==
  /\ pc = "save"
  /\ metadataFile' = [exists |-> TRUE, Containers |-> newMetadata]
  /\ metadataBytes' = IF impl = "part_008" THEN "synced" ELSE "cached"
  /\ metadataTmp' = NoMetadataTmp
  /\ saves' = saves + 1
  /\ okPrev' = stats
  /\ pc' = "done" /\ result' = "ok"
  /\ PassEnds
  /\ UNCHANGED <<config, later, saveErr, ctxDone, own, remote, disk, loadErr,
                 metadata, newMetadata, stats, transient, counters,
                 everFetched, crashFetched>>

\* saveSyncMetadata fails: logged, the file is as it was
SaveFails ==
  /\ pc = "save"
  /\ Fault
  /\ saves' = saves + 1
  /\ saveErr' = TRUE
  /\ metadataFile' = FileAfterFailedSave
  /\ okPrev' = {}
  /\ pc' = "done" /\ result' = "ok"
  /\ PassEnds
  /\ UNCHANGED <<config, later, tmpState, ctxDone, own, remote, disk, loadErr,
                 metadata, newMetadata, stats, transient, passes, envOps,
                 crashes, everFetched, crashFetched>>

\* the process ends during a pass: memory and goroutines are gone
Killed ==
  /\ pc \notin {"idle", "done"}
  /\ crashes < MaxCrashes
  /\ crashes' = crashes + 1
  /\ crashFetched' = [c \in Containers |->
                        {k \in Keys : task[c][k] = "downloaded"}]
  /\ crashPhase' = 1
  /\ okPrev' = {}
  /\ pc' = "idle" /\ result' = "none" /\ loadErr' = FALSE
  /\ metadata' = EmptyContainers /\ newMetadata' = EmptyContainers
  /\ stats' = {}
  /\ cmarker' = 0
  /\ cpc' = [c \in Containers |-> "none"]
  /\ marker' = [c \in Containers |-> 0]
  /\ blobInfo' = EmptyContainers
  /\ task' = [c \in Containers |-> [k \in Keys |-> "none"]]
  /\ own' = [c \in Containers |-> [k \in Keys |-> FALSE]]
  /\ currentFiles' = EmptyContainers
  /\ cstats' = [c \in Containers |-> ZeroStats]
  /\ errChan' = [c \in Containers |-> {}]
  /\ removed' = [c \in Containers |-> {}]
  /\ saves' = 0 /\ saveErr' = FALSE /\ ctxDone' = FALSE
  /\ reg' = [c \in Containers |-> [k \in Keys |-> 0]]
  /\ handoff' = [c \in Containers |-> "none"]
  /\ second' = "none"
  /\ UNCHANGED <<config, remote, disk, passes, envOps, faults, everFetched>>

\* the process is killed (SIGTERM, SIGKILL): the files stay as they are
Crash ==
  /\ Killed
  /\ UNCHANGED <<metadataFile, tmpState>>

\* the machine goes down: a file whose bytes were not flushed to storage
\* comes back complete or partly written
AfterPowerLoss(bytes) ==
  IF bytes = "cached" THEN {"synced", "partial"} ELSE {bytes}

PowerLoss ==
  /\ Killed
  /\ metadataBytes' \in AfterPowerLoss(metadataBytes)
  /\ \E b \in AfterPowerLoss(metadataTmp.bytes) :
       metadataTmp' = [metadataTmp EXCEPT !.bytes = b]
  /\ UNCHANGED metadataFile

\* ------------------------------------------------------ the environment
\* between passes the account and the backup directory change
Touched(c, k) ==
  /\ c \in Changing
  /\ pc \in {"idle", "done"}
  /\ envOps < MaxEnvOps
  /\ envOps' = envOps + 1
  /\ okPrev' = okPrev \ {c}
  /\ crashFetched' = [crashFetched EXCEPT ![c] = @ \ {k}]
  /\ UNCHANGED <<config, later, tmpState, saveLog, ctxDone, own, metadataFile, pc, result, loadErr, metadata,
                 newMetadata, stats, transient, passes, crashes, faults,
                 everFetched, crashPhase>>

\* a blob is overwritten: new content, later LastModified
RemoteModify(c, k) ==
  /\ remote[c][k] # NoRecord
  /\ remote[c][k].LastModified < MaxVer
  /\ Touched(c, k)
  /\ remote' = [remote EXCEPT ![c][k] =
       BlobMetadata(@.LastModified + 1, (@.MD5Hash % MaxContent) + 1)]
  /\ UNCHANGED disk

\* a blob's content changes while its LastModified stays
RemoteRewrite(c, k) ==
  /\ remote[c][k] # NoRecord
  /\ MaxContent > 1
  /\ Touched(c, k)
  /\ remote' = [remote EXCEPT ![c][k] =
       BlobMetadata(@.LastModified, (@.MD5Hash % MaxContent) + 1)]
  /\ UNCHANGED disk

\* a blob is deleted from its container
RemoteDelete(c, k) ==
  /\ remote[c][k] # NoRecord
  /\ Touched(c, k)
  /\ remote' = [remote EXCEPT ![c][k] = NoRecord]
  /\ UNCHANGED disk

\* a local file is deleted out-of-band
LocalDelete(c, k) ==
  /\ disk[c][k] # 0
  /\ Touched(c, k)
  /\ disk' = [disk EXCEPT ![c][k] = 0]
  /\ UNCHANGED remote

Next ==
  \/ StartPass
  \/ ListContainersFails
  \/ ListContainersSegment
  \/ WaitContainers
  \/ SaveSyncMetadata
  \/ SaveFails
  \/ Crash
  \/ \E c \in Containers :
       \/ ContainerGo(c)
       \/ Setup(c)
       \/ SetupFails(c)
       \/ ListBlobsFlatSegment(c)
       \/ ListBlobsFails(c)
       \/ FinishContainer(c)
  \/ \E c \in Containers, k \in Keys :
       \/ TaskAcquire(c, k)
       \/ TaskSkip(c, k)
       \/ TaskDownload(c, k)
       \/ TaskDownloadFails(c, k)
       \/ TaskSendErr(c, k)
       \/ RemoteModify(c, k)
       \/ RemoteRewrite(c, k)
       \/ RemoteDelete(c, k)
       \/ LocalDelete(c, k)

Spec == Init /\ [][Next]_vars

\* ------------------------------------------ an account of many containers
\* "ALL" over an account whose containers (more than containerSemaphore has
\* slots) come in one ListContainersSegment page; one pass
InitLarge ==
  /\ impl \in Impls
  /\ ContainerName = "ALL"
  /\ MaxConcurrent \in 1..MaxN
  /\ containerItems = LargeAccount
  /\ containerPage = Len(LargeAccount)
  /\ InitFiles
  /\ InitPass

NextLarge ==
  \/ StartPass /\ passes = 0
  \/ ListContainersSegment
  \/ WaitContainers
  \/ SaveSyncMetadata
  \/ \E c \in Containers :
       \/ ContainerGo(c)
       \/ Setup(c)
       \/ ListBlobsFlatSegment(c)
       \/ ListBlobsFails(c)
       \/ FinishContainer(c)
  \/ \E c \in Containers, k \in Keys :
       \/ TaskAcquire(c, k)
       \/ TaskDownload(c, k)

SpecLarge == InitLarge /\ [][NextLarge]_vars

\* ------------------------------------------- downloadBlob, step by step
\* os.MkdirAll and os.Create(tempPath): the temp file exists and is empty
\* (an existing file at tempPath is truncated)
DownloadCreate(c, k) ==
  /\ task[c][k] = "held"
  /\ NeedsDownload(c, k)
  /\ disk' = [disk EXCEPT ![Dir(c, k)][Rel(c, TempPath(k))] = Partial]
  /\ own' = [own EXCEPT ![c][k] = TRUE]
  /\ task' = [task EXCEPT ![c][k] = "created"]
  /\ UNCHANGED <<config, later, tmpState, saveLog, ctxDone, remote, metadataFile, pc, result, loadErr, metadata,
                 newMetadata, stats, cmarker, cpc, marker, blobInfo,
                 currentFiles, cstats, errChan, removed, counters, okPrev,
                 everFetched, crashFetched, crashPhase>>

\* blobURL.Download and io.Copy(outFile, reader): the blob's content is
\* written through outFile, whatever tempPath names by now
DownloadCopy(c, k) ==
  /\ task[c][k] = "created"
  /\ ~ctxDone
  /\ remote[c][k] # NoRecord
  /\ disk' = IF own[c][k]
               THEN [disk EXCEPT ![Dir(c, k)][Rel(c, TempPath(k))] =
                                   remote[c][k].MD5Hash]
               ELSE disk
  /\ task' = [task EXCEPT ![c][k] = "copied"]
  /\ UNCHANGED <<config, later, tmpState, saveLog, ctxDone, own, remote, metadataFile, pc, result, loadErr,
                 metadata, newMetadata, stats, cmarker, cpc, marker, blobInfo,
                 currentFiles, cstats, errChan, removed, counters, okPrev,
                 everFetched, crashFetched, crashPhase>>

\* outFile.Sync() and outFile.Close()
DownloadSync(c, k) ==
  /\ task[c][k] = "copied"
  /\ task' = [task EXCEPT ![c][k] = "synced"]
  /\ UNCHANGED <<config, later, tmpState, saveLog, ctxDone, own, remote, disk, metadataFile, pc, result, loadErr,
                 metadata, newMetadata, stats, cmarker, cpc, marker, blobInfo,
                 currentFiles, cstats, errChan, removed, counters, okPrev,
                 everFetched, crashFetched, crashPhase>>

\* os.Rename(tempPath, targetPath): the file at tempPath replaces the file
\* at targetPath; DownloadedFiles++
DownloadRename(c, k) ==
  /\ task[c][k] = "synced"
  /\ disk[Dir(c, k)][Rel(c, TempPath(k))] # 0
  /\ disk' = [disk EXCEPT ![Dir(c, k)][Rel(c, k)] =
                            disk[Dir(c, k)][Rel(c, TempPath(k))],
                          ![Dir(c, k)][Rel(c, TempPath(k))] = 0]
  /\ own' = [own EXCEPT ![c] = [j \in Keys |->
               IF j = k \/ TempPath(j) = k THEN FALSE ELSE @[j]]]
  /\ task' = [task EXCEPT ![c][k] = "downloaded"]
  /\ cstats' = [cstats EXCEPT ![c].DownloadedFiles = @ + 1]
  /\ everFetched' = [everFetched EXCEPT ![c] = @ \cup {k}]
  /\ UNCHANGED <<config, later, tmpState, saveLog, ctxDone, remote, metadataFile, pc, result, loadErr, metadata,
                 newMetadata, stats, cmarker, cpc, marker, blobInfo,
                 currentFiles, errChan, removed, counters, okPrev,
                 crashFetched, crashPhase>>

\* Download, io.Copy, Sync or Rename fails (Rename does when nothing is at
\* tempPath any more): os.Remove(tempPath), and the error goes to errChan
DownloadStepFails(c, k) ==
  /\ task[c][k] \in InDownload
  /\ IF \/ task[c][k] = "synced" /\ disk[Dir(c, k)][Rel(c, TempPath(k))] = 0
        \/ task[c][k] = "created" /\ ctxDone
       THEN NoFault ELSE Fault
  /\ disk' = [disk EXCEPT ![Dir(c, k)][Rel(c, TempPath(k))] = 0]
  /\ own' = [own EXCEPT ![c][k] = FALSE]
  /\ task' = [task EXCEPT ![c][k] = "errsend"]
  /\ UNCHANGED <<config, later, tmpState, saveLog, ctxDone, remote, metadataFile, pc, result, loadErr, metadata,
                 newMetadata, stats, cmarker, cpc, marker, blobInfo,
                 currentFiles, cstats, errChan, removed, passes, envOps,
                 crashes, okPrev, everFetched, crashFetched, crashPhase>>

\* one container whose blobs are downloaded step by step; a blob of it has
\* the name of another blob's temp file
InitFetch ==
  /\ impl \in Impls
  /\ ContainerName = "A"
  /\ MaxConcurrent \in 1..MaxN
  /\ containerItems = ContainerOrder
  /\ containerPage = ContainerPageSize
  /\ InitFilesOf(TmpNamedAccount)
  /\ InitPass

NextFetch ==
  \/ StartPass
  \/ SaveSyncMetadata
  \/ \E c \in Containers :
       \/ Setup(c)
       \/ ListBlobsFlatSegment(c)
       \/ FinishContainer(c)
  \/ \E c \in Containers, k \in Keys :
       \/ TaskAcquire(c, k)
       \/ TaskSkip(c, k)
       \/ TaskDownloadFails(c, k)
       \/ DownloadCreate(c, k)
       \/ DownloadCopy(c, k)
       \/ DownloadSync(c, k)
       \/ DownloadRename(c, k)
       \/ DownloadStepFails(c, k)
       \/ TaskSendErr(c, k)
       \/ RemoteModify(c, k)

SpecFetch == InitFetch /\ [][NextFetch]_vars

\* --------------------------------------- saveSyncMetadata, step by step
SaveSteps == {"save", "saveEncode", "saveSync", "saveClose", "saveRename"}

\* os.Create(tempPath): sync_metadata.json.tmp exists and is empty
SaveCreate ==
  /\ pc = "save"
  /\ metadataTmp' = [exists |-> TRUE, Containers |-> EmptyContainers,
                     bytes |-> "partial"]
  /\ saves' = saves + 1
  /\ pc' = "saveEncode"
  /\ UNCHANGED <<config, later, metadataBytes, saveErr, ctxDone, own, remote, disk,
                 metadataFile, result, loadErr, metadata, newMetadata, stats,
                 transient, counters, okPrev, everFetched, crashFetched,
                 crashPhase>>

\* encoder.Encode(metadata): the JSON is written, not yet flushed.  The
\* AzureService of part_008 goes on to file.Sync(), azure.go's to Close()
SaveEncode ==
  /\ pc = "saveEncode"
  /\ metadataTmp' = [exists |-> TRUE, Containers |-> newMetadata,
                     bytes |-> "cached"]
  /\ pc' = IF impl = "part_008" THEN "saveSync" ELSE "saveClose"
  /\ UNCHANGED <<config, later, metadataBytes, saveLog, ctxDone, own, remote, disk,
                 metadataFile, result, loadErr, metadata, newMetadata, stats,
                 transient, counters, okPrev, everFetched, crashFetched,
                 crashPhase>>

\* file.Sync()
SaveSync ==
  /\ pc = "saveSync"
  /\ metadataTmp' = [metadataTmp EXCEPT !.bytes = "synced"]
  /\ pc' = "saveClose"
  /\ UNCHANGED <<config, later, metadataBytes, saveLog, ctxDone, own, remote, disk,
                 metadataFile, result, loadErr, metadata, newMetadata, stats,
                 transient, counters, okPrev, everFetched, crashFetched,
                 crashPhase>>

\* file.Close()
SaveClose ==
  /\ pc = "saveClose"
  /\ pc' = "saveRename"
  /\ UNCHANGED <<config, later, tmpState, saveLog, ctxDone, own, remote, disk,
                 metadataFile, result, loadErr, metadata, newMetadata, stats,
                 transient, counters, okPrev, everFetched, crashFetched,
                 crashPhase>>

\* os.Rename(tempPath, s.metadataPath): saveSyncMetadata returns nil and
\* DownloadBlobs returns the stats
SaveRename ==
  /\ pc = "saveRename"
  /\ metadataTmp.exists
  /\ metadataFile' = [exists |-> TRUE, Containers |-> metadataTmp.Containers]
  /\ metadataBytes' = metadataTmp.bytes
  /\ metadataTmp' = NoMetadataTmp
  /\ okPrev' = stats
  /\ pc' = "done" /\ result' = "ok"
  /\ PassEnds
  /\ UNCHANGED <<config, later, saveLog, ctxDone, own, remote, disk, loadErr,
                 metadata, newMetadata, stats, transient, counters,
                 everFetched, crashFetched>>

\* a step of saveSyncMetadata fails (the rename does when nothing is at
\* tempPath any more): the temp file is removed (not by
\* azure.go when it is the rename that fails), the error is logged and
\* DownloadBlobs returns the stats
SaveStepFails ==
  /\ pc \in SaveSteps
  /\ IF pc = "saveRename" /\ ~metadataTmp.exists THEN NoFault ELSE Fault
  /\ saves' = IF pc = "save" THEN saves + 1 ELSE saves
  /\ saveErr' = TRUE
  /\ metadataTmp' = IF pc = "save" \/ (impl = "azure_go" /\ pc = "saveRename")
                      THEN metadataTmp ELSE NoMetadataTmp
  /\ metadataFile' = FileAfterFailedSave
  /\ okPrev' = {}
  /\ pc' = "done" /\ result' = "ok"
  /\ PassEnds
  /\ UNCHANGED <<config, later, metadataBytes, ctxDone, own, remote, disk, loadErr,
                 metadata, newMetadata, stats, transient, passes, envOps,
                 crashes, everFetched, crashFetched>>

\* passes with saveSyncMetadata step by step, process kills and power
\* losses
InitSave ==
  /\ impl \in Impls
  /\ ContainerName \in ContainerNames
  /\ MaxConcurrent \in 1..MaxN
  /\ containerItems = ContainerOrder
  /\ containerPage = ContainerPageSize
  /\ InitFiles
  /\ InitPass

NextSave ==
  \/ StartPass
  \/ ListContainersSegment
  \/ WaitContainers
  \/ SaveCreate
  \/ SaveEncode
  \/ SaveSync
  \/ SaveClose
  \/ SaveRename
  \/ SaveStepFails
  \/ Crash
  \/ PowerLoss
  \/ \E c \in Containers :
       \/ ContainerGo(c)
       \/ Setup(c)
       \/ ListBlobsFlatSegment(c)
       \/ FinishContainer(c)
  \/ \E c \in Containers, k \in Keys :
       \/ TaskAcquire(c, k)
       \/ TaskSkip(c, k)
       \/ TaskDownload(c, k)
       \/ RemoteModify(c, k)

SpecSave == InitSave /\ [][NextSave]_vars

\* ----------------------------------- the updates under mu, step by step
\* mu.Lock() can proceed: no goroutine of c is between Lock and Unlock
MuFree_NoLock(c) == TRUE
MuFree(c) == \A k \in Keys : task[c][k] \notin InMu

\* semaphore <- struct{}{}
Semaphore(c, k) ==
  /\ task[c][k] = "queued"
  /\ SemaphoreFree(c)
  /\ task' = [task EXCEPT ![c][k] = "sem"]
  /\ UNCHANGED <<config, later, tmpState, saveLog, ctxDone, own, remote, disk,
                 metadataFile, pc, result, loadErr, metadata, newMetadata,
                 stats, cmarker, cpc, marker, blobInfo, currentFiles, cstats,
                 errChan, removed, counters, okPrev, everFetched,
                 crashFetched, crashPhase>>

\* mu.Lock(); stats.FilesCount is read
LockFiles(c, k) ==
  /\ task[c][k] = "sem"
  /\ MuFree(c)
  /\ reg' = [reg EXCEPT ![c][k] = cstats[c].FilesCount]
  /\ task' = [task EXCEPT ![c][k] = "inFiles"]
  /\ UNCHANGED <<config, handoff, second, tmpState, saveLog, ctxDone, own,
                 remote, disk, metadataFile, pc, result, loadErr, metadata,
                 newMetadata, stats, cmarker, cpc, marker, blobInfo,
                 currentFiles, cstats, errChan, removed, counters, okPrev,
                 everFetched, crashFetched, crashPhase>>

\* stats.FilesCount++ is written, the currentFiles entry is set; mu.Unlock()
UnlockFiles(c, k) ==
  /\ task[c][k] = "inFiles"
  /\ cstats' = [cstats EXCEPT ![c].FilesCount = reg[c][k] + 1]
  /\ currentFiles' = [currentFiles EXCEPT ![c][k] = ListedProperties(c, k)]
  /\ task' = [task EXCEPT ![c][k] = "held"]
  /\ UNCHANGED <<config, later, tmpState, saveLog, ctxDone, own, remote, disk,
                 metadataFile, pc, result, loadErr, metadata, newMetadata,
                 stats, cmarker, cpc, marker, blobInfo, errChan, removed,
                 counters, okPrev, everFetched, crashFetched, crashPhase>>

\* the blob is unchanged: mu.Lock(); stats.SkippedFiles is read
LockSkipped(c, k) ==
  /\ task[c][k] = "held"
  /\ ~NeedsDownload(c, k)
  /\ MuFree(c)
  /\ reg' = [reg EXCEPT ![c][k] = cstats[c].SkippedFiles]
  /\ task' = [task EXCEPT ![c][k] = "inSkipped"]
  /\ UNCHANGED <<config, handoff, second, tmpState, saveLog, ctxDone, own,
                 remote, disk, metadataFile, pc, result, loadErr, metadata,
                 newMetadata, stats, cmarker, cpc, marker, blobInfo,
                 currentFiles, cstats, errChan, removed, counters, okPrev,
                 everFetched, crashFetched, crashPhase>>

\* stats.SkippedFiles++ is written; mu.Unlock(); release
UnlockSkipped(c, k) ==
  /\ task[c][k] = "inSkipped"
  /\ cstats' = [cstats EXCEPT ![c].SkippedFiles = reg[c][k] + 1]
  /\ task' = [task EXCEPT ![c][k] = "skipped"]
  /\ UNCHANGED <<config, later, tmpState, saveLog, ctxDone, own, remote, disk,
                 metadataFile, pc, result, loadErr, metadata, newMetadata,
                 stats, cmarker, cpc, marker, blobInfo, currentFiles, errChan,
                 removed, counters, okPrev, everFetched, crashFetched,
                 crashPhase>>

\* downloadBlob returns nil: the blob's content is at the target path
Fetched(c, k) ==
  /\ task[c][k] = "held"
  /\ NeedsDownload(c, k)
  /\ ~ctxDone
  /\ remote[c][k] # NoRecord
  /\ disk' = [disk EXCEPT ![Dir(c, k)][Rel(c, k)] = remote[c][k].MD5Hash,
                          ![Dir(c, k)][Rel(c, TempPath(k))] = 0]
  /\ task' = [task EXCEPT ![c][k] = "fetched"]
  /\ everFetched' = [everFetched EXCEPT ![c] = @ \cup {k}]
  /\ UNCHANGED <<config, later, tmpState, saveLog, ctxDone, own, remote,
                 metadataFile, pc, result, loadErr, metadata, newMetadata,
                 stats, cmarker, cpc, marker, blobInfo, currentFiles, cstats,
                 errChan, removed, counters, okPrev, crashFetched, crashPhase>>

\* mu.Lock(); stats.DownloadedFiles is read
LockDownloaded(c, k) ==
  /\ task[c][k] = "fetched"
  /\ MuFree(c)
  /\ reg' = [reg EXCEPT ![c][k] = cstats[c].DownloadedFiles]
  /\ task' = [task EXCEPT ![c][k] = "inDownloaded"]
  /\ UNCHANGED <<config, handoff, second, tmpState, saveLog, ctxDone, own,
                 remote, disk, metadataFile, pc, result, loadErr, metadata,
                 newMetadata, stats, cmarker, cpc, marker, blobInfo,
                 currentFiles, cstats, errChan, removed, counters, okPrev,
                 everFetched, crashFetched, crashPhase>>

\* stats.DownloadedFiles++ is written; mu.Unlock(); release
UnlockDownloaded(c, k) ==
  /\ task[c][k] = "inDownloaded"
  /\ cstats' = [cstats EXCEPT ![c].DownloadedFiles = reg[c][k] + 1]
  /\ task' = [task EXCEPT ![c][k] = "downloaded"]
  /\ UNCHANGED <<config, later, tmpState, saveLog, ctxDone, own, remote, disk,
                 metadataFile, pc, result, loadErr, metadata, newMetadata,
                 stats, cmarker, cpc, marker, blobInfo, currentFiles, errChan,
                 removed, counters, okPrev, everFetched, crashFetched,
                 crashPhase>>

InitMu ==
  /\ impl \in Impls
  /\ ContainerName \in ContainerNames
  /\ MaxConcurrent \in 1..MaxN
  /\ containerItems = ContainerOrder
  /\ containerPage = ContainerPageSize
  /\ InitFiles
  /\ InitPass

NextMu ==
  \/ StartPass
  \/ ListContainersSegment
  \/ WaitContainers
  \/ SaveSyncMetadata
  \/ \E c \in Containers :
       \/ ContainerGo(c)
       \/ Setup(c)
       \/ ListBlobsFlatSegment(c)
       \/ FinishContainer(c)
  \/ \E c \in Containers, k \in Keys :
       \/ Semaphore(c, k)
       \/ LockFiles(c, k)
       \/ UnlockFiles(c, k)
       \/ LockSkipped(c, k)
       \/ UnlockSkipped(c, k)
       \/ Fetched(c, k)
       \/ TaskDownloadFails(c, k)
       \/ TaskSendErr(c, k)
       \/ LockDownloaded(c, k)
       \/ UnlockDownloaded(c, k)
       \/ RemoteModify(c, k)

SpecMu == InitMu /\ [][NextMu]_vars

\* ------------------------------------- a blob name with ".." elements
\* container A holds a blob whose name, joined to A's directory, is a path
\* under B's directory
InitPath ==
  /\ impl \in Impls
  /\ ContainerName \in ContainerNames
  /\ MaxConcurrent \in 1..MaxN
  /\ containerItems = ContainerOrder
  /\ containerPage = ContainerPageSize
  /\ InitFilesOf(TraversalAccount)
  /\ InitPass

NextPath ==
  \/ StartPass /\ (AllContainers => passes = 0)
  \/ ListContainersSegment
  \/ WaitContainers
  \/ SaveSyncMetadata
  \/ \E c \in Containers :
       \/ ContainerGo(c)
       \/ Setup(c)
       \/ ListBlobsFlatSegment(c)
       \/ FinishContainer(c)
  \/ \E c \in Containers, k \in Keys :
       \/ TaskAcquire(c, k)
       \/ TaskSkip(c, k)
       \/ TaskDownload(c, k)
       \/ TaskDownloadFails(c, k)
       \/ TaskSendErr(c, k)

SpecPath == InitPath /\ [][NextPath]_vars

\* ---------------------------------------------- the cron schedule
\* cron.New is given no job wrapper, so cron starts the function that
\* StartScheduler added in a goroutine of its own on every tick of the
\* schedule, whether or not the performBackup of an earlier tick has
\* returned.  Of that second performBackup the steps on the state file are
\* followed: "download" (DownloadBlobs up to the save), "create", "encode",
\* "rename", and "done".
Tick ==
  /\ pc # "idle"
  /\ second = "none"
  /\ second' = "download"
  /\ UNCHANGED <<config, reg, handoff, tmpState, saveLog, ctxDone, own, remote,
                 disk, metadataFile, pc, result, loadErr, metadata,
                 newMetadata, stats, transient, counters, okPrev, everFetched,
                 crashFetched, crashPhase>>

\* the second DownloadBlobs has processed its containers
SecondDownloadBlobs ==
  /\ second = "download"
  /\ second' = "create"
  /\ UNCHANGED <<config, reg, handoff, tmpState, saveLog, ctxDone, own, remote,
                 disk, metadataFile, pc, result, loadErr, metadata,
                 newMetadata, stats, transient, counters, okPrev, everFetched,
                 crashFetched, crashPhase>>

\* what the second DownloadBlobs saves: the listed properties of the blobs
\* of the containers it processed
SecondMetadata ==
  IF impl = "part_008"
    THEN [c \in Containers |->
            IF (IF AllContainers
                  THEN \E i \in 1..Len(containerItems) : containerItems[i] = c
                  ELSE c = ContainerName)
              THEN remote[c] ELSE NoFiles]
    ELSE EmptyContainers

\* its os.Create(tempPath): the same path as the first one's, which is
\* truncated if it exists
SecondCreate ==
  /\ second = "create"
  /\ metadataTmp' = [exists |-> TRUE, Containers |-> EmptyContainers,
                     bytes |-> "partial"]
  /\ second' = "encode"
  /\ UNCHANGED <<config, reg, handoff, metadataBytes, saveLog, ctxDone, own,
                 remote, disk, metadataFile, pc, result, loadErr, metadata,
                 newMetadata, stats, transient, counters, okPrev, everFetched,
                 crashFetched, crashPhase>>

\* its Encode (Sync) and Close: written to the file it created, which by
\* now may have been renamed onto sync_metadata.json by the first one
SecondEncode ==
  /\ second = "encode"
  /\ IF metadataTmp.exists
       THEN /\ metadataTmp' = [exists |-> TRUE, Containers |-> SecondMetadata,
                               bytes |-> IF impl = "part_008" THEN "synced"
                                                              ELSE "cached"]
            /\ UNCHANGED <<metadataFile, metadataBytes>>
       ELSE /\ metadataFile' = [exists |-> TRUE, Containers |-> SecondMetadata]
            /\ metadataBytes' = IF impl = "part_008" THEN "synced" ELSE "cached"
            /\ UNCHANGED metadataTmp
  /\ second' = "rename"
  /\ UNCHANGED <<config, reg, handoff, saveLog, ctxDone, own, remote, disk,
                 pc, result, loadErr, metadata, newMetadata, stats, transient,
                 counters, okPrev, everFetched, crashFetched, crashPhase>>

\* its os.Rename(tempPath, s.metadataPath), which fails when nothing is at
\* tempPath any more; the second DownloadBlobs returns
SecondRename ==
  /\ second = "rename"
  /\ IF metadataTmp.exists
       THEN /\ metadataFile' = [exists |-> TRUE,
                                Containers |-> metadataTmp.Containers]
            /\ metadataBytes' = metadataTmp.bytes
            /\ metadataTmp' = NoMetadataTmp
       ELSE UNCHANGED <<metadataFile, metadataBytes, metadataTmp>>
  /\ second' = "done"
  /\ UNCHANGED <<config, reg, handoff, saveLog, ctxDone, own, remote, disk,
                 pc, result, loadErr, metadata, newMetadata, stats, transient,
                 counters, okPrev, everFetched, crashFetched, crashPhase>>

\* one DownloadBlobs with saveSyncMetadata step by step, and the one of the
\* next tick
InitSched ==
  /\ impl \in Impls
  /\ ContainerName \in ContainerNames
  /\ MaxConcurrent \in 1..MaxN
  /\ containerItems = ContainerOrder
  /\ containerPage = ContainerPageSize
  /\ InitFiles
  /\ InitPass

NextSched ==
  \/ StartPass /\ passes = 0
  \/ Tick
  \/ SecondDownloadBlobs
  \/ SecondCreate
  \/ SecondEncode
  \/ SecondRename
  \/ ListContainersSegment
  \/ WaitContainers
  \/ SaveCreate
  \/ SaveEncode
  \/ SaveSync
  \/ SaveClose
  \/ SaveRename
  \/ SaveStepFails /\ ~metadataTmp.exists
  \/ \E c \in Containers :
       \/ ContainerGo(c)
       \/ Setup(c)
       \/ ListBlobsFlatSegment(c)
       \/ FinishContainer(c)
  \/ \E c \in Containers, k \in Keys :
       \/ TaskAcquire(c, k)
       \/ TaskDownload(c, k)

SpecSched == InitSched /\ [][NextSched]_vars

\* ------------------------------------- any MAX_CONCURRENT_OPERATIONS
\* make(chan struct{}, MaxConcurrent) with a negative size panics in the
\* container goroutine (or in DownloadBlobs): the process ends
MakeChanPanics(c) ==
  /\ cpc[c] = "setup"
  /\ ~ctxDone
  /\ MaxConcurrent < 0
  /\ Killed
  /\ UNCHANGED <<metadataFile, tmpState>>

\* getEnvAsIntWithDefault returns whatever integer strconv.Atoi parses and
\* validateConfig does not look at it; no download fails
InitZero ==
  /\ impl \in Impls
  /\ ContainerName \in ContainerNames
  /\ MaxConcurrent \in -1..MaxN
  /\ containerItems = ContainerOrder
  /\ containerPage = ContainerPageSize
  /\ InitFiles
  /\ InitPass

NextZero ==
  \/ StartPass /\ (AllContainers => passes = 0)
  \/ ListContainersSegment
  \/ WaitContainers
  \/ SaveSyncMetadata
  \/ \E c \in Containers :
       \/ ContainerGo(c)
       \/ Setup(c)
       \/ MakeChanPanics(c)
       \/ ListBlobsFlatSegment(c)
       \/ FinishContainer(c)
  \/ \E c \in Containers, k \in Keys :
       \/ TaskAcquire(c, k)
       \/ TaskSkip(c, k)
       \/ TaskDownload(c, k)
       \/ RemoteModify(c, k)

SpecZero == InitZero /\ [][NextZero]_vars

\* ------------------------------------------ performBackup: the hand-off
\* performBackup ranges over the stats that DownloadBlobs returned with a
\* nil error; handoff[c] is where the loop is with container c
InHandoff == {"zip", "upload"}
HandoffEnded == {"unchanged", "zipFailed", "uploadFailed", "uploaded"}

\* if containerStats.DownloadedFiles > 0
HadChanges_Processed(c) == TRUE
HadChanges(c) == cstats[c].DownloadedFiles > 0

\* the loop has run to its end (or performBackup returned before it)
HandoffOver ==
  \/ pc = "idle"
  \/ pc = "done" /\ result # "ok"
  \/ pc = "done" /\ result = "ok" /\ \A c \in stats : handoff[c] \in HandoffEnded

HandoffFrame ==
  UNCHANGED <<config, reg, second, tmpState, saveLog, ctxDone, own, remote,
              disk, metadataFile, pc, result, loadErr, metadata, newMetadata,
              stats, transient, passes, envOps, crashes, okPrev, everFetched,
              crashFetched, crashPhase>>

\* the next iteration of "for containerName, containerStats := range stats"
RangeStats(c) ==
  /\ pc = "done" /\ result = "ok"
  /\ c \in stats
  /\ handoff[c] = "none"
  /\ \A d \in Containers : handoff[d] \notin InHandoff
  /\ handoff' = [handoff EXCEPT ![c] =
                   IF HadChanges(c) THEN "zip" ELSE "unchanged"]
  /\ NoFault
  /\ HandoffFrame

\* utils.ZipDirectory(containerDir, zipPath) returns nil
ZipDirectory(c) ==
  /\ handoff[c] = "zip"
  /\ handoff' = [handoff EXCEPT ![c] = "upload"]
  /\ NoFault
  /\ HandoffFrame

\* ... or an error: logged, continue
ZipDirectoryFails(c) ==
  /\ handoff[c] = "zip"
  /\ Fault
  /\ handoff' = [handoff EXCEPT ![c] = "zipFailed"]
  /\ HandoffFrame

\* driveService.UploadBackup returns nil; the zip file is removed
UploadBackup(c) ==
  /\ handoff[c] = "upload"
  /\ handoff' = [handoff EXCEPT ![c] = "uploaded"]
  /\ NoFault
  /\ HandoffFrame

\* ... or an error: logged, the zip file is removed, continue
UploadBackupFails(c) ==
  /\ handoff[c] = "upload"
  /\ Fault
  /\ handoff' = [handoff EXCEPT ![c] = "uploadFailed"]
  /\ HandoffFrame

InitBackup ==
  /\ impl \in Impls
  /\ ContainerName \in ContainerNames
  /\ MaxConcurrent \in 1..MaxN
  /\ containerItems = ContainerOrder
  /\ containerPage = ContainerPageSize
  /\ InitFiles
  /\ InitPass

\* the scheduler runs performBackup again when the last one has returned
NextBackup ==
  \/ StartPass /\ HandoffOver
  \/ ListContainersSegment
  \/ WaitContainers
  \/ SaveSyncMetadata
  \/ SaveFails
  \/ \E c \in Containers :
       \/ ContainerGo(c)
       \/ Setup(c)
       \/ ListBlobsFlatSegment(c)
       \/ FinishContainer(c)
       \/ RangeStats(c)
       \/ ZipDirectory(c)
       \/ ZipDirectoryFails(c)
       \/ UploadBackup(c)
       \/ UploadBackupFails(c)
  \/ \E c \in Containers, k \in Keys :
       \/ TaskAcquire(c, k)
       \/ TaskSkip(c, k)
       \/ TaskDownload(c, k)
       \/ TaskDownloadFails(c, k)
       \/ TaskSendErr(c, k)
       \/ RemoteModify(c, k)
       \/ RemoteDelete(c, k)

SpecBackup == InitBackup /\ [][NextBackup]_vars

\* ------------------------------------- a blob changes during a pass
\* a blob is overwritten while DownloadBlobs runs: new content, later
\* LastModified
RemoteModifyDuring(c, k) ==
  /\ c \in Changing
  /\ pc \notin {"idle", "done"}
  /\ remote[c][k] # NoRecord
  /\ remote[c][k].LastModified < MaxVer
  /\ envOps < MaxEnvOps
  /\ envOps' = envOps + 1
  /\ remote' = [remote EXCEPT ![c][k] =
       BlobMetadata(@.LastModified + 1, (@.MD5Hash % MaxContent) + 1)]
  /\ okPrev' = okPrev \ {c}
  /\ crashFetched' = [crashFetched EXCEPT ![c] = @ \ {k}]
  /\ UNCHANGED <<config, later, tmpState, saveLog, ctxDone, own, disk,
                 metadataFile, pc, result, loadErr, metadata, newMetadata,
                 stats, transient, passes, crashes, faults, everFetched,
                 crashPhase>>

InitRace ==
  /\ impl \in Impls
  /\ ContainerName \in ContainerNames
  /\ MaxConcurrent \in 1..MaxN
  /\ containerItems = ContainerOrder
  /\ containerPage = ContainerPageSize
  /\ InitFiles
  /\ InitPass

NextRace ==
  \/ StartPass
  \/ ListContainersSegment
  \/ WaitContainers
  \/ SaveSyncMetadata
  \/ \E c \in Containers :
       \/ ContainerGo(c)
       \/ Setup(c)
       \/ ListBlobsFlatSegment(c)
       \/ FinishContainer(c)
  \/ \E c \in Containers, k \in Keys :
       \/ TaskAcquire(c, k)
       \/ TaskSkip(c, k)
       \/ TaskDownload(c, k)
       \/ RemoteModifyDuring(c, k)

SpecRace == InitRace /\ [][NextRace]_vars

\* ------------------------------------------------ a cancelled context
\* the ctx that DownloadBlobs was called with is cancelled, or its deadline
\* passes, while the pass runs.  (StartScheduler calls performBackup with
\* context.Background(), and main returns on SIGINT/SIGTERM without
\* cancelling anything: only another caller's ctx can be done.)
Cancel ==
  /\ pc \notin {"idle", "done"}
  /\ ~ctxDone
  /\ ctxDone' = TRUE
  /\ UNCHANGED <<config, later, tmpState, saveLog, own, remote, disk, metadataFile,
                 pc, result, loadErr, metadata, newMetadata, stats, transient,
                 counters, okPrev, everFetched, crashFetched, crashPhase>>

InitCancel ==
  /\ impl \in Impls
  /\ ContainerName \in ContainerNames
  /\ MaxConcurrent \in 1..MaxN
  /\ containerItems = ContainerOrder
  /\ containerPage = ContainerPageSize
  /\ InitFiles
  /\ InitPass

NextCancel ==
  \/ StartPass /\ (AllContainers => passes = 0)
  \/ Cancel
  \/ ListContainersFails
  \/ ListContainersSegment
  \/ WaitContainers
  \/ SaveSyncMetadata
  \/ \E c \in Containers :
       \/ ContainerGo(c)
       \/ Setup(c)
       \/ SetupFails(c)
       \/ ListBlobsFlatSegment(c)
       \/ ListBlobsFails(c)
       \/ FinishContainer(c)
  \/ \E c \in Containers, k \in Keys :
       \/ TaskAcquire(c, k)
       \/ TaskSkip(c, k)
       \/ DownloadCreate(c, k)
       \/ DownloadCopy(c, k)
       \/ DownloadSync(c, k)
       \/ DownloadRename(c, k)
       \/ DownloadStepFails(c, k)
       \/ TaskSendErr(c, k)
       \/ RemoteModify(c, k)

SpecCancel == InitCancel /\ [][NextCancel]_vars

\* ------------------------------------------------------------- claims
InPass == pc \notin {"idle", "done"}
Listed(c) == {k \in Keys : blobInfo[c][k] # NoRecord}
Failed(c) == cpc[c] \in {"accessErr", "listErr", "fetchErr"}
FetchAttempted(c, k) == task[c][k] \in {"downloaded", "errsend", "failed"}

\* C1 (idempotence): a container whose previous sub-pass succeeded and was
\* saved, and whose blobs and local files were not touched since, has in
\* the pass that follows no blob fetched and no local file removed, and
\* when its sub-pass ends every listed blob was counted as skipped.
C1_Idempotence ==
  \A c \in Containers :
    (InPass /\ c \in okPrev /\ ~loadErr) =>
      /\ \A k \in Keys : ~FetchAttempted(c, k)
      /\ cstats[c].DownloadedFiles = 0
      /\ removed[c] = {}
      /\ cpc[c] = "ok" =>
           /\ cstats[c].SkippedFiles = Cardinality(Listed(c))
           /\ cstats[c].FilesCount = Cardinality(Listed(c))

\* the second pass of C1 has run to its end for a container with blobs
C1_SecondPassDone ==
  \E c \in Containers :
    InPass /\ c \in okPrev /\ ~loadErr /\ cpc[c] = "ok" /\ Listed(c) # {}

\* C2 (change detection): when a blob goroutine leaves the diff, it skips
\* the blob exactly if a previous entry exists, the local file exists and
\* the listed LastModified equals the recorded one; otherwise it goes into
\* downloadBlob.  The MD5 of the listing and of the entry play no part.
C2_ChangeDetection ==
  [][\A c \in Containers, k \in Keys :
       (task[c][k] = "held" /\ task'[c][k] \in {"skipped", "downloaded", "errsend"}) =>
         (task'[c][k] = "skipped" <=>
            (/\ metadata[c][k] # NoRecord
             /\ disk[c][k] # 0
             /\ blobInfo[c][k].LastModified = metadata[c][k].LastModified))]_vars

\* a blob was skipped although its listed MD5 differs from the recorded one
C2_SkippedDespiteHash ==
  \E c \in Containers, k \in Keys :
    /\ task[c][k] = "skipped"
    /\ blobInfo[c][k].MD5Hash # metadata[c][k].MD5Hash

C4_BoundedConcurrency ==
  \A c \in Containers : Held(c) <= MaxConcurrent

\* the semaphore is full while a goroutine of a later page waits for it
C4_SemaphoreFull ==
  \E c \in Containers :
    /\ Held(c) = MaxConcurrent
    /\ \E k \in Keys : task[c][k] = "queued"
    /\ marker[c] > 1

\* C5 (failure policy): a processContainer that waits for its goroutines
\* can always go on (some goroutine can step, or all have returned), and
\* the error it returns names every blob whose fetch failed.
C5_DrainsToCompletion ==
  \A c \in Containers :
    /\ cpc[c] = "wait" =>
         \/ \A k \in Keys :
              task[c][k] \in {"none", "skipped", "downloaded", "failed"}
         \/ \E k \in Keys : task[c][k] = "held"
         \/ \E k \in Keys : task[c][k] = "queued" /\ SemaphoreFree(c)
         \/ \E k \in Keys : task[c][k] = "errsend" /\ ErrChanFree(c)
    /\ cpc[c] = "fetchErr" =>
         errChan[c] = {k \in Keys : task[c][k] = "failed"}

\* C6 (partial-failure aggregation): after a first pass over all containers
\* in which the listing of B failed, A and C succeeded and the save went
\* through, the result holds the stats of A and C and not of B, and the
\* state file holds the entries of the blobs of A and of C.
C6_PartialFailureAggregation ==
  (/\ AllContainers /\ pc = "done" /\ passes = 1 /\ metadataFile.exists
   /\ cpc["B"] = "listErr" /\ cpc["A"] = "ok" /\ cpc["C"] = "ok") =>
     /\ result = "ok"
     /\ stats = {"A", "C"}
     /\ \A c \in {"A", "C"} : metadataFile.Containers[c] = currentFiles[c]
     /\ \A c \in {"A", "C"} : \A k \in Listed(c) :
          metadataFile.Containers[c][k] = blobInfo[c][k]

\* C7 (pass outcome): a pass in which the sub-pass of some container failed
\* returns an error to its caller.
C7_PassOutcome ==
  (pc = "done" /\ \E c \in Containers : Failed(c)) => result = "error"

\* C8 (unfinished containers keep their state): after a pass, the state
\* file holds for every container whose sub-pass failed the entries it
\* held when the pass loaded it.
C8_FailedKeepsPriorState ==
  \A c \in Containers :
    (pc = "done" /\ ~loadErr /\ Failed(c)) =>
      metadataFile.Containers[c] = metadata[c]

\* C9 (SyncRecord invariant): the state file holds an entry for a key only
\* if downloadBlob has at some time renamed that blob into place.
C9_RecordOnlyIfMaterialized ==
  \A c \in Containers, k \in Keys :
    metadataFile.Containers[c][k] # NoRecord => k \in everFetched[c]

\* the state file holds entries, saved by a pass in which a fetch of
\* another container failed
C9_RecordsSaved ==
  /\ \E c \in Containers, k \in Keys : metadataFile.Containers[c][k] # NoRecord
  /\ \E c \in Containers : cpc[c] = "fetchErr"
  /\ pc = "done" /\ result = "ok"

\* C10 (crash safety): a blob fetched in a pass that was killed before the
\* save, and untouched since, is fetched again in the next pass (not
\* skipped), its file then holds the content of the blob, and in the pass
\* after a successful next pass it is not fetched again.
C10_CrashSafety ==
  \A c \in Containers : \A k \in crashFetched[c] :
    /\ crashPhase = 1 => task[c][k] # "skipped"
    /\ (crashPhase = 1 /\ InPass /\ task[c][k] = "downloaded") =>
         disk[c][k] = remote[c][k].MD5Hash
    /\ (crashPhase = 2 /\ InPass /\ c \in okPrev /\ ~loadErr) =>
         ~FetchAttempted(c, k)

\* a blob goroutine that has returned (or was never started)
Returned == {"none", "skipped", "downloaded", "failed"}

\* C11 (phase ordering): the cleanup walk of a container runs only when
\* every blob goroutine of that container has returned, and saveSyncMetadata
\* is called only when every blob goroutine of every container has returned
\* and no container is still being processed.
C11_PhaseOrdering ==
  [][/\ \A c \in Containers :
          (cpc[c] = "wait" /\ cpc'[c] \in {"ok", "fetchErr"}) =>
            \A k \in Keys : task[c][k] \in Returned
     /\ (pc = "save" /\ pc' = "done") =>
          /\ \A c \in Containers : cpc[c] \notin {"acquire", "setup", "list", "wait"}
          /\ \A c \in Containers : \A k \in Keys : task[c][k] \in Returned]_vars

\* C12 (frozen listing snapshot): a blob goroutine enters downloadBlob only
\* when the listing of its container is complete and every other listed
\* blob of the container has been classified.
C12_FrozenSnapshot ==
  [][\A c \in Containers : \A k \in Keys :
       (task[c][k] = "held" /\ task'[c][k] \in {"downloaded", "errsend"}) =>
         /\ cpc[c] = "wait"
         /\ \A k2 \in Keys \ {k} : task[c][k2] \notin {"queued", "held"}]_vars

\* processContainer of c is running, or a blob goroutine it started is
Processing(c) ==
  \/ cpc[c] \in {"setup", "list", "wait"}
  \/ \E k \in Keys : task[c][k] \in {"queued", "held", "errsend"}

\* C13 (bounded container concurrency): at most ContainerSemaphoreCap
\* containers are inside processContainer or have a blob goroutine in flight.
C13_BoundedContainers ==
  Cardinality({c \in Containers : Processing(c)}) <= ContainerSemaphoreCap

\* containerSemaphore is full and a further container goroutine waits for it
C13_ContainerSemaphoreFull ==
  /\ Cardinality({c \in Containers : cpc[c] \in {"setup", "list", "wait"}})
       = ContainerSemaphoreCap
  /\ \E c \in Containers : cpc[c] = "acquire"

\* the keys that name a blob of c now or named one that was downloaded
Blobs(c) == {k \in Keys : remote[c][k] # NoRecord \/ k \in everFetched[c]}

\* C14 (atomic materialization): the target of a blob is never a partly
\* written file; it changes only when downloadBlob renames the completely
\* written temp file of that blob onto it (or the cleanup walk or somebody
\* outside removes it); and a downloadBlob that fails leaves the target as
\* it was and no file at its tempPath.
C14_AtomicMaterialization ==
  /\ [](\A c \in Containers : \A k \in Blobs(c) : disk[c][k] # Partial)
  /\ [][\A c \in Containers : \A k \in Blobs(c) :
          /\ disk'[c][k] # disk[c][k] =>
               \/ /\ task[c][k] \in {"held", "synced"}
                  /\ task'[c][k] = "downloaded"
                  /\ disk'[c][k] = remote[c][k].MD5Hash
               \/ /\ cpc[c] = "wait" /\ cpc'[c] \in {"ok", "fetchErr"}
                  /\ disk'[c][k] = 0
               \/ /\ pc \in {"idle", "done"}
                  /\ disk'[c][k] = 0
          /\ (task[c][k] \in {"held"} \cup InDownload /\ task'[c][k] = "errsend") =>
               /\ disk'[c][k] = disk[c][k]
               /\ task[c][k] \in InDownload => disk'[c][TempPath(k)] = 0]_vars

\* C15 (crash-safe state save): sync_metadata.json is never a partly
\* written file, whatever step of the save fails and wherever the process
\* or the machine goes down; it changes only when saveSyncMetadata renames
\* the temp file onto it, and that temp file then holds newMetadata
\* completely and flushed to storage.
C15_CrashSafeSave ==
  /\ [](metadataBytes # "partial")
  /\ [][metadataFile' # metadataFile =>
          /\ pc \in {"save", "saveRename"} /\ pc' = "done"
          /\ metadataFile' = [exists |-> TRUE, Containers |-> newMetadata]
          /\ metadataBytes' = "synced"]_vars

\* C16 (single save per pass): a DownloadBlobs that has returned has called
\* saveSyncMetadata exactly once, the call comes when no container is being
\* processed any more, and the state file changes in no other step.
C16_SingleSave ==
  /\ [](pc = "done" => saves = 1)
  /\ [][/\ saves' > saves =>
             \A c \in Containers : cpc[c] \notin {"acquire", "setup", "list", "wait"}
        /\ metadataFile' # metadataFile => saves' = 1]_vars

\* a pass over all containers has saved once although a container failed
C16_SavedOnce ==
  /\ AllContainers /\ pc = "done" /\ saves = 1
  /\ \E c \in Containers : Failed(c)

\* C17 (listing failure): a container whose ListBlobsFlatSegment failed has
\* no local file removed in the pass, gets no stats and no entry in
\* newMetadata or in the state file the pass saves; the failing step leaves
\* the other containers and DownloadBlobs ("ALL") as they are, and makes
\* DownloadBlobs of a single container return the error.
C17_ListingFailure ==
  /\ [](\A c \in Containers :
          cpc[c] = "listErr" =>
            /\ removed[c] = {}
            /\ c \notin stats
            /\ newMetadata[c] = NoFiles
            /\ (pc = "done" /\ saves = 1 /\ ~saveErr) =>
                 metadataFile.Containers[c] = NoFiles)
  /\ [][\A c \in Containers :
          /\ (cpc'[c] = "listErr" /\ pc \notin {"idle", "done"}) =>
               \A p \in Paths : disk[c][p] # 0 => disk'[c][p] # 0
          /\ (cpc[c] = "list" /\ cpc'[c] = "listErr") =>
               IF AllContainers
                 THEN /\ pc' = pc /\ result' = result
                      /\ \A c2 \in Containers \ {c} : cpc'[c2] = cpc[c2]
                 ELSE pc' = "done" /\ result' = "error" /\ saves' = 0]_vars

\* the listing of B failed on its first page and that of A on its second,
\* after a blob of A was listed; C was processed after that and saved
C17_OthersContinue ==
  /\ AllContainers /\ pc = "done" /\ saves = 1 /\ ~saveErr
  /\ cpc["B"] = "listErr" /\ marker["B"] = 0
  /\ cpc["A"] = "listErr" /\ marker["A"] > 0
  /\ cpc["C"] = "ok" /\ "C" \in stats

\* C18 (state-persistence failure): the step in which saveSyncMetadata
\* fails logs the error, leaves every local file and the state file as they
\* are and lets DownloadBlobs return the stats; the state file then holds
\* what the pass had loaded, the downloaded files are on disk, and the next
\* DownloadBlobs diffs against that state file.
C18_SaveFailure ==
  /\ []((saveErr /\ pc = "done") =>
          /\ result = "ok"
          /\ ~loadErr => metadataFile.Containers = metadata
          /\ \A c \in Containers : \A k \in Keys :
               task[c][k] = "downloaded" => disk[c][k] # 0)
  /\ [][/\ (pc \in SaveSteps /\ pc' = "done" /\ saveErr') =>
             /\ disk' = disk
             /\ metadataFile' = metadataFile /\ metadataBytes' = metadataBytes
             /\ stats' = stats
        /\ (saveErr /\ pc = "done" /\ pc' \notin {"idle", "done"} /\ ~loadErr') =>
             metadata' = metadataFile.Containers]_vars

\* a save failed after its temp file was written, in a pass that had loaded
\* records and downloaded a blob again
C18_SaveFailed ==
  /\ saveErr /\ pc = "done" /\ ~loadErr
  /\ metadata["A"]["a"] # NoRecord
  /\ task["A"]["a"] = "downloaded"
  /\ newMetadata # metadata

\* C19 (state load): a DownloadBlobs that finds no state file starts with an
\* empty state and no load error; one whose loadSyncMetadata fails on an
\* existing file (unreadable, undecodable) also starts, with an empty state,
\* so that no listed blob of that pass is skipped: each is downloaded.
C19_StateLoad ==
  /\ [](loadErr => metadata = EmptyContainers)
  /\ [][/\ (pc \in {"idle", "done"} /\ pc' \notin {"idle", "done"}) =>
             /\ ~metadataFile.exists =>
                  ~loadErr' /\ metadata' = EmptyContainers
             /\ loadErr' =>
                  /\ metadataFile.exists
                  /\ metadata' = EmptyContainers
                  /\ pc' \in {"listContainers", "single"}
        /\ \A c \in Containers : \A k \in Keys :
             (loadErr /\ task[c][k] = "held") =>
               /\ NeedsDownload(c, k)
               /\ task'[c][k] # "skipped"]_vars

\* the load failed on a state file that records blob a of A as it is in the
\* account and on disk, and the pass downloaded it again
C19_FullSync ==
  /\ loadErr /\ pc = "done" /\ result = "ok"
  /\ metadataFile.exists
  /\ task["A"]["a"] = "downloaded"
  /\ remote["A"]["a"] # NoRecord
  /\ disk["A"]["a"] = remote["A"]["a"].MD5Hash
  /\ \A k \in Keys : task["A"][k] # "skipped"

\* the goroutines of c that have not returned can none of them take a step
Blocked(c) ==
  /\ \E k \in Keys : task[c][k] \notin {"none", "skipped", "downloaded", "failed"}
  /\ \A k \in Keys :
       /\ task[c][k] \notin {"held"} \cup InDownload
       /\ task[c][k] = "queued" => ~SemaphoreFree(c)
       /\ task[c][k] = "errsend" => ~ErrChanFree(c)

\* C20 (cancellation): once ctx is done, no list call and no Download
\* succeeds, no blob goroutine is spawned and none enters downloadBlob (a
\* goroutine that was waiting for the semaphore included), the files the
\* pass has downloaded stay as they are, and the goroutines of a container
\* can always go on until they have all returned.
C20_Cancellation ==
  /\ [](ctxDone => \A c \in Containers : ~Blocked(c))
  /\ [][(ctxDone /\ ctxDone') =>
          /\ cmarker' = cmarker /\ marker' = marker
          /\ \A c \in Containers : \A k \in Keys :
               /\ task'[c][k] = "queued" => task[c][k] = "queued"
               /\ task'[c][k] = "created" => task[c][k] = "created"
               /\ task'[c][k] = "copied" => task[c][k] = "copied"
               /\ task[c][k] = "downloaded" => disk'[c][k] = disk[c][k]]_vars

\* ctx is done while a goroutine of A waits for the semaphore that another
\* one holds inside downloadBlob
C20_CancelledWhileQueued ==
  /\ ctxDone
  /\ \E k \in Keys : task["A"][k] = "queued"
  /\ \E k \in Keys : task["A"][k] \in InDownload

\* C21 (protected accumulator): at most one goroutine of a container is
\* between mu.Lock() and mu.Unlock(), and when processContainer has returned
\* after a complete listing, FilesCount is the number of listed blobs,
\* currentFiles has an entry for exactly the listed keys, and FilesCount =
\* DownloadedFiles + SkippedFiles + the number of failed downloads.
C21_ProtectedAccumulator ==
  \A c \in Containers :
    /\ Cardinality({k \in Keys : task[c][k] \in InMu}) <= 1
    /\ cpc[c] \in {"ok", "fetchErr"} =>
         /\ cstats[c].FilesCount = Cardinality(Listed(c))
         /\ {k \in Keys : currentFiles[c][k] # NoRecord} = Listed(c)
         /\ \A k \in Listed(c) : currentFiles[c][k] = blobInfo[c][k]
         /\ cstats[c].FilesCount =
              cstats[c].DownloadedFiles + cstats[c].SkippedFiles
                + Cardinality({k \in Keys : task[c][k] = "failed"})

\* two goroutines of A ran side by side; one skipped its blob, the other
\* fetched its blob, and processContainer returned
C21_CountedBoth ==
  /\ MaxConcurrent = 2
  /\ cpc["A"] = "ok"
  /\ cstats["A"].FilesCount = 2
  /\ cstats["A"].SkippedFiles = 1
  /\ cstats["A"].DownloadedFiles = 1

\* C22 (path confinement): a file under a container's directory is created,
\* overwritten or removed only by a step of that container's own
\* processContainer, and a listed blob whose name leads out of the
\* container's directory is not downloaded or skipped: its goroutine ends
\* with an error.
C22_PathConfinement ==
  /\ [](\A c \in Containers : \A k \in Keys :
          Dir(c, k) # c =>
            task[c][k] \in {"none", "queued", "held", "errsend", "failed"})
  /\ [][\A d \in Containers :
          disk'[d] # disk[d] => (task'[d] # task[d] \/ cpc'[d] # cpc[d])]_vars

\* only container A is backed up, and a file stands in B's directory
C22_WrittenOutside ==
  /\ ContainerName = "A"
  /\ task["A"]["c/../../B/a"] = "downloaded"
  /\ disk["B"]["a"] # 0

\* C23 (single writer across passes): no performBackup is started while an
\* earlier one has not returned from DownloadBlobs, so that between the
\* Create and the Rename of a saveSyncMetadata nothing else changes the
\* temp file, and the state file is never a truncated one.
C23_SingleWriter ==
  /\ [](~(InPass /\ second \notin {"none", "done"}))
  /\ [](metadataFile.exists => metadataBytes # "partial")
  /\ [][(pc \in SaveSteps \ {"save"} /\ pc' = pc) =>
          metadataTmp' = metadataTmp]_vars

\* the first DownloadBlobs renamed the temp file after the second one had
\* truncated it: the state file is empty
C23_TruncatedStateFile ==
  /\ impl = "part_008"
  /\ pc = "done" /\ ~saveErr
  /\ metadataFile.exists /\ metadataBytes = "partial"

\* C24 (no orphaned goroutine): when processContainer of a container has
\* returned, with or without an error, every blob goroutine it started has
\* returned; so the container goroutine gives its containerSemaphore slot
\* back only then.
C24_NoOrphans ==
  \A c \in Containers :
    cpc[c] \in {"ok", "accessErr", "listErr", "fetchErr"} =>
      \A k \in Keys : task[c][k] \in Returned

\* the listing of A failed on a later page while a goroutine of an earlier
\* page was still waiting or at work
C24_Orphaned ==
  /\ cpc["A"] = "listErr" /\ marker["A"] > 0
  /\ \E k \in Keys : task["A"][k] \in {"queued", "held"}

\* C25 (any MaxConcurrent): whatever integer MaxConcurrent is, building the
\* channels of processContainer does not end the process, and as long as no
\* download fails the blob goroutines of a container that have not
\* returned can always go on: one holds the semaphore or can acquire it.
C25_AnyMaxConcurrent ==
  /\ [](\A c \in Containers :
          (\E k \in Keys : task[c][k] \notin Returned) =>
            \E k \in Keys : \/ task[c][k] = "held"
                            \/ task[c][k] = "queued" /\ SemaphoreFree(c))
  /\ [][\A c \in Containers : cpc[c] = "setup" => cpc'[c] # "none"]_vars

\* MaxConcurrent is 0; the listing of A is complete and its goroutines wait
\* for the semaphore
C25_ZeroSlots ==
  /\ MaxConcurrent = 0
  /\ cpc["A"] = "wait"
  /\ \A k \in Listed("A") : task["A"][k] = "queued"

\* the paths downloadBlob(c, k) creates, writes, renames or removes
FetchPaths(c, k) == {Join(c, k), Join(c, TempPath(k))}

\* C26 (disjoint paths): two blob goroutines of a container that are inside
\* downloadBlob at the same time, for different blobs, have no path in
\* common: neither target nor temp path of the one is target or temp path
\* of the other.
C26_DisjointPaths ==
  \A c \in Containers : \A j \in Keys : \A k \in Keys \ {j} :
    (task[c][j] \in InDownload /\ task[c][k] \in InDownload) =>
      FetchPaths(c, j) \cap FetchPaths(c, k) = {}

\* the goroutines of the blobs a and a.tmp of A are both inside downloadBlob
\* and the temp file of a, which is the target of a.tmp, is partly written
C26_SharedPath ==
  /\ task["A"]["a"] \in InDownload
  /\ task["A"]["a.tmp"] \in InDownload
  /\ disk["A"]["a.tmp"] = Partial

\* C27 (frame of a save): the step in which saveSyncMetadata replaces the
\* state file changes the entries of the containers that are in stats (the
\* ones processContainer returned for without an error) and of no other
\* container.
C27_SaveFrame ==
  [][(pc = "save" /\ pc' = "done" /\ ~saveErr') =>
       \A c \in Containers \ stats :
         metadataFile'.Containers[c] = metadataFile.Containers[c]]_vars

\* the pass loaded entries of A, processContainer of A failed, and the
\* saved state file has no entry of A
C27_EntriesDropped ==
  /\ impl = "part_008"
  /\ pc = "done" /\ saves = 1 /\ ~saveErr /\ ~loadErr
  /\ Failed("A")
  /\ metadata["A"]["a"] # NoRecord
  /\ metadataFile.Containers["A"] = NoFiles

Attempted == InHandoff \cup {"zipFailed", "uploadFailed", "uploaded"}
DownloadedInPass(c) == \E k \in Keys : task[c][k] = "downloaded"
HandoffStep ==
  \E c \in Containers :
    \/ RangeStats(c)
    \/ ZipDirectory(c) \/ ZipDirectoryFails(c)
    \/ UploadBackup(c) \/ UploadBackupFails(c)
UnchangedSince(c) == passes > 1 /\ ~loadErr /\ c \in okPrev
C30_PersistedBeforeUpload ==
  /\ [](\A c \in Containers :
          handoff[c] \in Attempted =>
            /\ ~saveErr
            /\ \A k \in Keys :
                 metadataFile.Containers[c][k] = currentFiles[c][k])
  /\ [](\A c \in Containers :
          (pc \notin {"idle", "done"} /\ UnchangedSince(c)) =>
            ~DownloadedInPass(c))
  /\ [][HandoffStep =>
          /\ metadataFile' = metadataFile
          /\ (\A c \in Containers :
                (handoff[c] = "none" /\ handoff'[c] \in Attempted) =>
                  ~(passes > 1 /\ ~loadErr /\ envOps = 0 /\ faults = 0))]_vars

\* the second pass over an account in which nothing changed and nothing
\* failed: B has been downloaded and uploaded again
C30_UploadedAgain ==
  /\ passes = 2 /\ envOps = 0 /\ faults = 0
  /\ pc = "done" /\ result = "ok"
  /\ handoff["B"] = "uploaded"
  /\ metadataFile.Containers["B"] = NoFiles
====
